---- MODULE Spec2Model ----
(***************************************************************************)
(* Model of tea_tasting/aggr.py: the Aggregates store (count, mean, var,   *)
(* cov), its accessors, the Delta-method ratio formulas, filter, __add__   *)
(* and read_aggregates.  Numbers are exact rationals <<num, den>>.         *)
(***************************************************************************)
EXTENDS Integers, Sequences, FiniteSets, TLC

\* ------------------------------------------------------------------------
\* Bounds
\* ------------------------------------------------------------------------
MaxRows == 7        \* rows of the sample read by read_aggregates
MaxParts == 3       \* parts a sample is split into

\* column names of the tables and of the stores
Names == {"x", "y"}

\* Python's None as a variable name, and as the count of a store
None == "None"
NoCount == <<>>

\* ------------------------------------------------------------------------
\* Exact arithmetic: a number is <<num, den>>, den > 0, in lowest terms
\* ------------------------------------------------------------------------
Abs(n) == IF n < 0 THEN -n ELSE n

RECURSIVE GCD(_, _)
GCD(a, b) == IF b = 0 THEN a ELSE GCD(b, a % b)

Norm(n, d) ==
    LET g == GCD(Abs(n), Abs(d))
        s == IF d < 0 THEN -1 ELSE 1
    IN  <<(s * n) \div g, (s * d) \div g>>

Q(n) == <<n, 1>>
RAdd(a, b) == Norm(a[1] * b[2] + b[1] * a[2], a[2] * b[2])
RSub(a, b) == Norm(a[1] * b[2] - b[1] * a[2], a[2] * b[2])
RMul(a, b) == Norm(a[1] * b[1], a[2] * b[2])
RDiv(a, b) == Norm(a[1] * b[2], a[2] * b[1])

\* outcome of a call: a returned value or a raised exception
Ok(v) == <<"ok", v>>
Raise(e) == <<"raise", e>>
IsOk(o) == o[1] = "ok"
Val(o) == o[2]

\* ------------------------------------------------------------------------
\* tea_tasting._utils.sorted_tuple: the pair in a fixed order
\* ------------------------------------------------------------------------
NameRank(n) == IF n = "x" THEN 1 ELSE 2

sorted_tuple(left, right) ==
    IF NameRank(right) < NameRank(left) THEN <<right, left>> ELSE <<left, right>>

\* some enumeration of a finite set, as Python iterates a set or a dict
RECURSIVE SeqOf(_)
SeqOf(S) ==
    IF S = {} THEN <<>>
    ELSE LET e == CHOOSE e \in S : TRUE IN <<e>> \o SeqOf(S \ {e})

Range(q) == {q[i] : i \in DOMAIN q}

\* dict.items() of a pair-keyed dict: <<key, value>> entries
Items(d) == LET ks == SeqOf(DOMAIN d) IN [i \in DOMAIN ks |-> <<ks[i], d[ks[i]]>>]

\* the dict with the given items (their keys are distinct)
DictOf(items) ==
    [k \in {items[i][1] : i \in DOMAIN items} |->
        items[CHOOSE i \in DOMAIN items : items[i][1] = k][2]]

\* ------------------------------------------------------------------------
\* class Aggregates
\* ------------------------------------------------------------------------
\* faulty variant: the cov dict kept with the keys as given
SortedCov_as_given(cov) == DictOf(cov)

\* the dict comprehension of __init__: every key in sorted order; of two
\* entries with the same sorted key the later one stays
SortedCov(cov) ==
    LET key(i) == sorted_tuple(cov[i][1][1], cov[i][1][2])
        keys == {key(i) : i \in DOMAIN cov}
        last(k) == CHOOSE i \in DOMAIN cov :
                       /\ key(i) = k
                       /\ \A j \in DOMAIN cov : key(j) = k => j <= i
    IN  [k \in keys |-> cov[last(k)][2]]

\* Aggregates.__init__; cov is the items of the dict passed
Aggregates(count, mean, var, cov) ==
    [count |-> count, mean |-> mean, var |-> var, cov |-> SortedCov(cov)]

count(self) ==
    IF self.count = NoCount THEN Raise("RuntimeError") ELSE Ok(Q(self.count[1]))

mean(self, key) ==
    IF key = None THEN Ok(Q(1))
    ELSE IF key \in DOMAIN self.mean THEN Ok(self.mean[key])
    ELSE Raise("KeyError")

\* faulty variant: a variance that was never computed reads as 0
var_or_zero(self, key) ==
    IF key = None THEN Ok(Q(0))
    ELSE IF key \in DOMAIN self.var THEN Ok(self.var[key])
    ELSE Ok(Q(0))

var(self, key) ==
    IF key = None THEN Ok(Q(0))
    ELSE IF key \in DOMAIN self.var THEN Ok(self.var[key])
    ELSE Raise("KeyError")

\* faulty variant: the lookup without the None convention
cov_lookup_only(self, left, right) ==
    IF sorted_tuple(left, right) \in DOMAIN self.cov
    THEN Ok(self.cov[sorted_tuple(left, right)])
    ELSE Raise("KeyError")

cov(self, left, right) ==
    IF left = None \/ right = None THEN Ok(Q(0))
    ELSE IF sorted_tuple(left, right) \in DOMAIN self.cov
         THEN Ok(self.cov[sorted_tuple(left, right)])
    ELSE Raise("KeyError")

\* a / b as an evaluation step on two outcomes
Div(a, b) ==
    IF ~IsOk(a) THEN a
    ELSE IF ~IsOk(b) THEN b
    ELSE IF Val(b)[1] = 0 THEN Raise("ZeroDivisionError")
    ELSE Ok(RDiv(Val(a), Val(b)))

Mul(a, b) ==
    IF ~IsOk(a) THEN a ELSE IF ~IsOk(b) THEN b ELSE Ok(RMul(Val(a), Val(b)))

Sub(a, b) ==
    IF ~IsOk(a) THEN a ELSE IF ~IsOk(b) THEN b ELSE Ok(RSub(Val(a), Val(b)))

Add(a, b) ==
    IF ~IsOk(a) THEN a ELSE IF ~IsOk(b) THEN b ELSE Ok(RAdd(Val(a), Val(b)))

ratio_var(self, numer, denom) ==
    LET denom_mean_sq == Mul(mean(self, denom), mean(self, denom))
        t1 == var(self, numer)
        t2 == Div(Mul(Mul(Ok(Q(2)), cov(self, numer, denom)), mean(self, numer)),
                  mean(self, denom))
        t3 == Div(Mul(Mul(var(self, denom), mean(self, numer)), mean(self, numer)),
                  denom_mean_sq)
    IN  IF ~IsOk(denom_mean_sq) THEN denom_mean_sq
        ELSE Div(Add(Sub(t1, t2), t3), denom_mean_sq)

ratio_cov(self, left_numer, left_denom, right_numer, right_denom) ==
    LET left_ratio_of_means == Div(mean(self, left_numer), mean(self, left_denom))
        right_ratio_of_means == Div(mean(self, right_numer), mean(self, right_denom))
        t1 == cov(self, left_numer, right_numer)
        t2 == Mul(cov(self, left_numer, right_denom), right_ratio_of_means)
        t3 == Mul(cov(self, left_denom, right_numer), left_ratio_of_means)
        t4 == Mul(Mul(cov(self, left_denom, right_denom), left_ratio_of_means),
                  right_ratio_of_means)
    IN  IF ~IsOk(left_ratio_of_means) THEN left_ratio_of_means
        ELSE IF ~IsOk(right_ratio_of_means) THEN right_ratio_of_means
        ELSE Div(Div(Add(Sub(Sub(t1, t2), t3), t4), mean(self, left_denom)),
                 mean(self, right_denom))

\* ------------------------------------------------------------------------
\* _validate_aggr_cols: the request as given (sequences) to the normalized
\* request (a flag and three sets)
\* ------------------------------------------------------------------------
\* faulty variant: the means of the variance and covariance columns not added
_validate_aggr_cols_unexpanded(has_count, mean_cols, var_cols, cov_cols) ==
    [has_count |-> has_count \/ Len(var_cols) > 0 \/ Len(cov_cols) > 0,
     mean_cols |-> Range(mean_cols),
     var_cols  |-> Range(var_cols),
     cov_cols  |-> {sorted_tuple(p[1], p[2]) : p \in Range(cov_cols)}]

_validate_aggr_cols(has_count, mean_cols, var_cols, cov_cols) ==
    [has_count |-> has_count \/ Len(var_cols) > 0 \/ Len(cov_cols) > 0,
     mean_cols |-> Range(mean_cols) \cup Range(var_cols)
                   \cup {p[1] : p \in Range(cov_cols)}
                   \cup {p[2] : p \in Range(cov_cols)},
     var_cols  |-> Range(var_cols),
     cov_cols  |-> {sorted_tuple(p[1], p[2]) : p \in Range(cov_cols)}]

\* faulty variant: filter that never keeps the count
filter_without_count(self, has_count, mean_cols, var_cols, cov_cols) ==
    LET v == _validate_aggr_cols(has_count, mean_cols, var_cols, cov_cols)
    IN  IF v.has_count /\ ~IsOk(count(self)) THEN count(self)
        ELSE IF \E col \in v.mean_cols : ~IsOk(mean(self, col)) THEN Raise("KeyError")
        ELSE IF \E col \in v.var_cols : ~IsOk(var(self, col)) THEN Raise("KeyError")
        ELSE IF \E cols \in v.cov_cols : ~IsOk(cov(self, cols[1], cols[2]))
             THEN Raise("KeyError")
        ELSE Ok(Aggregates(
                 NoCount,
                 [col \in v.mean_cols |-> Val(mean(self, col))],
                 [col \in v.var_cols |-> Val(var(self, col))],
                 Items([cols \in v.cov_cols |-> Val(cov(self, cols[1], cols[2]))])))

\* Aggregates.filter
filter(self, has_count, mean_cols, var_cols, cov_cols) ==
    LET v == _validate_aggr_cols(has_count, mean_cols, var_cols, cov_cols)
    IN  IF v.has_count /\ ~IsOk(count(self)) THEN count(self)
        ELSE IF \E col \in v.mean_cols : ~IsOk(mean(self, col)) THEN Raise("KeyError")
        ELSE IF \E col \in v.var_cols : ~IsOk(var(self, col)) THEN Raise("KeyError")
        ELSE IF \E cols \in v.cov_cols : ~IsOk(cov(self, cols[1], cols[2]))
             THEN Raise("KeyError")
        ELSE Ok(Aggregates(
                 IF v.has_count THEN self.count ELSE NoCount,
                 [col \in v.mean_cols |-> Val(mean(self, col))],
                 [col \in v.var_cols |-> Val(var(self, col))],
                 Items([cols \in v.cov_cols |-> Val(cov(self, cols[1], cols[2]))])))

\* ------------------------------------------------------------------------
\* Aggregates.__add__ and its helpers
\* ------------------------------------------------------------------------
_add_mean(left, right, col) ==
    LET sum_ == Add(Mul(count(left), mean(left, col)),
                    Mul(count(right), mean(right, col)))
        n == Add(count(left), count(right))
    IN  Div(sum_, n)

\* faulty variant: the pooled variance divided by n instead of n - 1
_add_var_biased(left, right, col) ==
    LET left_n == count(left)
        right_n == count(right)
        total_n == Add(left_n, right_n)
        diff_of_means == Sub(mean(left, col), mean(right, col))
    IN  IF ~IsOk(total_n) THEN total_n
        ELSE IF ~IsOk(diff_of_means) THEN diff_of_means
        ELSE Div(Add(Add(Mul(var(left, col), Sub(left_n, Ok(Q(1)))),
                         Mul(var(right, col), Sub(right_n, Ok(Q(1))))),
                     Div(Mul(Mul(Mul(diff_of_means, diff_of_means), left_n), right_n),
                         total_n)),
                 total_n)

_add_var(left, right, col) ==
    LET left_n == count(left)
        right_n == count(right)
        total_n == Add(left_n, right_n)
        diff_of_means == Sub(mean(left, col), mean(right, col))
    IN  IF ~IsOk(total_n) THEN total_n
        ELSE IF ~IsOk(diff_of_means) THEN diff_of_means
        ELSE Div(Add(Add(Mul(var(left, col), Sub(left_n, Ok(Q(1)))),
                         Mul(var(right, col), Sub(right_n, Ok(Q(1))))),
                     Div(Mul(Mul(Mul(diff_of_means, diff_of_means), left_n), right_n),
                         total_n)),
                 Sub(total_n, Ok(Q(1))))

_add_cov(left, right, cols) ==
    LET left_n == count(left)
        right_n == count(right)
        total_n == Add(left_n, right_n)
        diff_of_means0 == Sub(mean(left, cols[1]), mean(right, cols[1]))
        diff_of_means1 == Sub(mean(left, cols[2]), mean(right, cols[2]))
    IN  IF ~IsOk(total_n) THEN total_n
        ELSE IF ~IsOk(diff_of_means0) THEN diff_of_means0
        ELSE IF ~IsOk(diff_of_means1) THEN diff_of_means1
        ELSE Div(Add(Add(Mul(cov(left, cols[1], cols[2]), Sub(left_n, Ok(Q(1)))),
                         Mul(cov(right, cols[1], cols[2]), Sub(right_n, Ok(Q(1))))),
                     Div(Mul(Mul(Mul(diff_of_means0, diff_of_means1), left_n), right_n),
                         total_n)),
                 Sub(total_n, Ok(Q(1))))

\* the exception of a dict comprehension, given the outcomes of its values,
\* one of which raises
RaisedIn(outs) == CHOOSE o \in outs : ~IsOk(o)

\* Aggregates.__add__ (self + other)
__add__(self, other) ==
    LET cnt  == IF self.count # NoCount THEN Add(count(self), count(other))
                ELSE Ok(None)
        m(col) == _add_mean(self, other, col)
        v(col) == _add_var(self, other, col)
        c(cols) == _add_cov(self, other, cols)
    IN  IF ~IsOk(cnt) THEN cnt
        ELSE IF \E col \in DOMAIN self.mean : ~IsOk(m(col))
             THEN RaisedIn({m(col) : col \in DOMAIN self.mean})
        ELSE IF \E col \in DOMAIN self.var : ~IsOk(v(col))
             THEN RaisedIn({v(col) : col \in DOMAIN self.var})
        ELSE IF \E cols \in DOMAIN self.cov : ~IsOk(c(cols))
             THEN RaisedIn({c(cols) : cols \in DOMAIN self.cov})
        ELSE Ok(Aggregates(
                 IF self.count # NoCount THEN <<Val(cnt)[1]>> ELSE NoCount,
                 [col \in DOMAIN self.mean |-> Val(m(col))],
                 [col \in DOMAIN self.var |-> Val(v(col))],
                 Items([cols \in DOMAIN self.cov |-> Val(c(cols))])))

\* ------------------------------------------------------------------------
\* read_aggregates with group_col = None; data is a sequence of rows, a row
\* a function from column names to integers
\* ------------------------------------------------------------------------
RECURSIVE SumQ(_)
SumQ(q) == IF q = <<>> THEN Q(0) ELSE RAdd(Head(q), SumQ(Tail(q)))

read_aggregates(data, has_count, mean_cols, var_cols, cov_cols) ==
    LET v == _validate_aggr_cols(has_count, mean_cols, var_cols, cov_cols)
        n == Len(data)
        col_mean == [col \in Names |->
                        RDiv(SumQ([i \in 1..n |-> Q(data[i][col])]), Q(n))]
        demean == [col \in Names |->
                      [i \in 1..n |-> RSub(Q(data[i][col]), col_mean[col])]]
        moment(l, r) ==
            RDiv(SumQ([i \in 1..n |-> RMul(demean[l][i], demean[r][i])]), Q(n - 1))
    IN  Aggregates(
            IF v.has_count THEN <<n>> ELSE NoCount,
            [col \in v.mean_cols |-> col_mean[col]],
            [col \in v.var_cols |-> moment(col, col)],
            Items([cols \in v.cov_cols |-> moment(cols[1], cols[2])]))

\* ------------------------------------------------------------------------
\* State
\* ------------------------------------------------------------------------
VARIABLES
    table,      \* the whole sample: a sequence of rows
    request,    \* the request every part is read with
    pool,       \* the stores still to combine, each with the rows it covers
    outcome,    \* "ok" or the exception of the last combine of the pool
    heap,       \* the dict objects: heap[ref] is the content of dict ref
    self,       \* <<>> or <<s>>: the Aggregates object the caller works with
    held,       \* refs of the dicts the caller passed to the constructor
    last,       \* <<>> or <<c>>: the call that has just returned or raised
    built,      \* <<>> or <<v>>: what self held when it was constructed
    writes      \* writes of the caller to the dicts it holds

reduceVars == <<table, request, pool, outcome>>
storeVars == <<heap, self, held, last, built, writes>>
vars == <<table, request, pool, outcome, heap, self, held, last, built, writes>>

Nil == <<>>

\* the store variables while only the pool is at work, and the reverse
StoreIdle ==
    /\ heap = <<>> /\ self = Nil /\ held = {} /\ last = Nil
    /\ built = Nil /\ writes = 0

ReduceIdle ==
    /\ table = <<>> /\ request = Nil /\ pool = {} /\ outcome = "ok"

\* ------------------------------------------------------------------------
\* Reduction of the per-part stores of a split sample with __add__
\* ------------------------------------------------------------------------
\* the first n rows of the sample: row i has x = i and y = i * i mod 3
SampleTable(n) ==
    [i \in 1..n |-> [col \in Names |-> IF col = "x" THEN i ELSE (i * i) % 3]]

\* the rows of the table at the indices in S
RowsAt(S) == LET idx == SeqOf(S) IN [i \in DOMAIN idx |-> table[idx[i]]]

\* splits of rows 1..n into 2..MaxParts parts of at least two rows; part
\* numbers are given in order of first appearance
Splits(n) ==
    {f \in [1..n -> 1..MaxParts] :
        /\ f[1] = 1
        /\ \A i \in 2..n : \E j \in 1..(i - 1) : f[i] <= f[j] + 1
        /\ \E i \in 1..n : f[i] = 2
        /\ \A p \in 1..MaxParts :
               Cardinality({i \in 1..n : f[i] = p}) # 1}

Request(has_count, mean_cols, var_cols, cov_cols) ==
    [has_count |-> has_count, mean_cols |-> mean_cols,
     var_cols |-> var_cols, cov_cols |-> cov_cols]

ReduceRequests ==
    { Request(FALSE, <<>>, <<"x", "y">>, << <<"y", "x">> >>),
      Request(FALSE, <<"x", "y">>, <<>>, <<>>) }

Read(rows, req) ==
    read_aggregates(rows, req.has_count, req.mean_cols, req.var_cols, req.cov_cols)

\* a store of the pool: the parts it was combined from are kept with it
Entry(aggr, parts) == [aggr |-> aggr, parts |-> parts]
RowsOf(e) == UNION e.parts

InitReduce ==
    \E n \in 4..MaxRows :
        \E f \in Splits(n), req \in ReduceRequests :
            /\ table = SampleTable(n)
            /\ request = req
            /\ pool = {Entry(Read(LET idx == SeqOf({i \in 1..n : f[i] = p})
                                  IN  [i \in DOMAIN idx |-> SampleTable(n)[idx[i]]],
                                  req),
                             {{i \in 1..n : f[i] = p}}) :
                           p \in {f[i] : i \in 1..n}}
            /\ outcome = "ok"
            /\ StoreIdle

\* one pairwise combine: left.aggr + right.aggr replaces the two stores
Combine(left, right) ==
    LET o == __add__(left.aggr, right.aggr)
    IN  /\ left # right
        /\ IF IsOk(o)
           THEN /\ pool' = (pool \ {left, right})
                           \cup {Entry(Val(o), left.parts \cup right.parts)}
                /\ outcome' = "ok"
           ELSE /\ pool' = pool
                /\ outcome' = o[2]
        /\ UNCHANGED <<table, request>>
        /\ UNCHANGED storeVars

NextReduce == \E left \in pool, right \in pool : Combine(left, right)

SpecReduce == InitReduce /\ [][NextReduce]_vars

MaxWrites == 1      \* writes of the caller to the dicts it passed
MaxCount == 6       \* largest count of a store the caller combines

\* arguments of the constructor
CountArgs == {NoCount, <<2>>}
MeanArgs ==
    { <<>>, [col \in {"x"} |-> Q(1)],
      [col \in Names |-> IF col = "x" THEN Q(2) ELSE Q(1)] }
VarArgs ==
    { <<>>, [col \in {"x"} |-> Q(1)], [col \in Names |-> Q(2)] }
\* the items of the cov dict, in the order the caller inserted them
CovArgs ==
    { <<>>,
      << <<<<"y", "x">>, Q(2)>> >>,
      << <<<<"x", "y">>, Q(1)>>, <<<<"y", "x">>, Q(2)>> >> }

\* arguments of filter and read_aggregates
MeanColArgs == {<<>>, <<"x">>, <<"y", "x">>}
VarColArgs == {<<>>, <<"x">>, <<"y", "y">>}
CovColArgs ==
    { <<>>, << <<"y", "x">> >>, << <<"x", "y">>, <<"y", "x">> >>,
      << <<"x", "x">> >> }
Requests ==
    {Request(h, m, v, c) :
        h \in BOOLEAN, m \in MeanColArgs, v \in VarColArgs, c \in CovColArgs}

\* arguments of the accessors, and values the caller writes into its dicts
Keys == Names \cup {None}
Denoms == {None, "y"}
\* refs of the dicts passed to the constructor: mean, var and cov
ArgRefs == {1, 2, 4}

\* the table read_aggregates is called on
SmallTable == SampleTable(3)

\* what an object holds, through its references
ViewIn(h, obj) ==
    [count |-> obj.count, mean |-> h[obj.mean], var |-> h[obj.var],
     cov |-> h[obj.cov]]
View(obj) == ViewIn(heap, obj)

\* the object of a store whose three dicts are at refs base + 1 .. base + 3
ObjAt(count_, base) ==
    [count |-> count_, mean |-> base + 1, var |-> base + 2, cov |-> base + 3]

\* s = Aggregates(count, mean, var, cov) on dicts the caller keeps:
\* _mean and _var are the dicts passed, _cov is a new dict
New(count_, mean_, var_, cov_) ==
    LET a == Aggregates(count_, mean_, var_, cov_)
    IN  /\ last = Nil /\ self = Nil
        /\ heap' = <<mean_, var_, a.cov, DictOf(cov_)>>
        /\ self' = <<ObjAt(a.count, 0)>>
        /\ held' = ArgRefs
        /\ built' = <<a>>
        /\ writes' = 0
        /\ UNCHANGED last
        /\ UNCHANGED reduceVars

\* s = read_aggregates(SmallTable, None, ...)
ReadNew(req) ==
    LET a == Read(SmallTable, req)
    IN  /\ last = Nil /\ self = Nil
        /\ heap' = <<a.mean, a.var, a.cov>>
        /\ self' = <<ObjAt(a.count, 0)>>
        /\ held' = {}
        /\ built' = <<a>>
        /\ writes' = 0
        /\ UNCHANGED last
        /\ UNCHANGED reduceVars

\* the call record of an operation that returns a store
StoreCall(op, arg, o) ==
    [op |-> op, arg |-> arg, out |-> IF IsOk(o) THEN <<"ok">> ELSE o,
     res |-> IF IsOk(o) THEN <<ObjAt(Val(o).count, Len(heap))>> ELSE Nil]

\* the heap after an operation that returns a store: three new dicts
HeapWith(o) ==
    IF IsOk(o) THEN heap \o <<Val(o).mean, Val(o).var, Val(o).cov>> ELSE heap

\* self.filter(...) returns or raises
Filter(req) ==
    LET o == filter(View(self[1]), req.has_count, req.mean_cols, req.var_cols,
                    req.cov_cols)
    IN  /\ last = Nil /\ self # Nil
        /\ last' = <<StoreCall("filter", req, o)>>
        /\ heap' = HeapWith(o)
        /\ UNCHANGED <<self, held, built, writes>>
        /\ UNCHANGED reduceVars

\* self + other or other + self returns or raises, other a store built for
\* the call
Plus(side, count_, mean_, var_, cov_) ==
    LET other == Aggregates(count_, mean_, var_, cov_)
        o == IF side = "left" THEN __add__(View(self[1]), other)
             ELSE __add__(other, View(self[1]))
    IN  /\ last = Nil /\ self # Nil
        /\ IsOk(o) /\ Val(o).count # NoCount => Val(o).count[1] <= MaxCount
        /\ last' = <<StoreCall(side, other, o)>>
        /\ heap' = HeapWith(o)
        /\ UNCHANGED <<self, held, built, writes>>
        /\ UNCHANGED reduceVars

\* an accessor of self returns or raises
Accessor(op, a) ==
    LET s == View(self[1])
    IN  CASE op = "count" -> count(s)
          [] op = "mean" -> mean(s, a[1])
          [] op = "var" -> var(s, a[1])
          [] op = "cov" -> cov(s, a[1], a[2])
          [] op = "ratio_var" -> ratio_var(s, a[1], a[2])
          [] op = "ratio_cov" -> ratio_cov(s, a[1], a[2], a[3], a[4])

Call(op, a) ==
    /\ last = Nil /\ self # Nil
    /\ last' = <<[op |-> op, arg |-> a, out |-> Accessor(op, a), res |-> Nil]>>
    /\ UNCHANGED <<heap, self, held, built, writes>>
    /\ UNCHANGED reduceVars

\* the caller goes on: with the store returned, if one was (s = s.filter(...),
\* s = s + other), and the old object and its dicts are garbage
Resume ==
    /\ last # Nil
    /\ last' = Nil
    /\ IF last[1].res # Nil
       THEN LET r == last[1].res[1]
            IN  /\ heap' = <<heap[r.mean], heap[r.var], heap[r.cov]>>
                /\ self' = <<ObjAt(r.count, 0)>>
                /\ held' = {}
                /\ built' = <<View(r)>>
                /\ writes' = 0
       ELSE UNCHANGED <<heap, self, held, built, writes>>
    /\ UNCHANGED reduceVars

\* the caller writes d["x"] = 5 (d[("x", "y")] = 5 in the cov dict) into a
\* dict it passed to the constructor
Write(ref) ==
    /\ last = Nil /\ ref \in held /\ writes < MaxWrites
    /\ LET key == IF ref = 4 THEN <<"x", "y">> ELSE "x"
       IN  heap' = [heap EXCEPT ![ref] =
                       [k \in DOMAIN heap[ref] \cup {key} |->
                           IF k = key THEN Q(5) ELSE heap[ref][k]]]
    /\ writes' = writes + 1
    /\ UNCHANGED <<self, held, last, built>>
    /\ UNCHANGED reduceVars

Init ==
    /\ heap = <<>> /\ self = Nil /\ held = {} /\ last = Nil
    /\ built = Nil /\ writes = 0
    /\ ReduceIdle

Next ==
    \/ \E c \in CountArgs, m \in MeanArgs, v \in VarArgs, cv \in CovArgs :
           New(c, m, v, cv)
    \/ \E req \in Requests : ReadNew(req)
    \/ \E req \in Requests : Filter(req)
    \/ \E side \in {"left", "right"}, c \in CountArgs, m \in MeanArgs,
          v \in VarArgs, cv \in CovArgs : Plus(side, c, m, v, cv)
    \/ \E k \in Keys : Call("mean", <<k>>) \/ Call("var", <<k>>)
    \/ \E l \in Keys, r \in Keys : Call("cov", <<l, r>>) \/ Call("ratio_var", <<l, r>>)
    \/ \E ln \in Names, ld \in Denoms, rn \in Names, rd \in Denoms :
           Call("ratio_cov", <<ln, ld, rn, rd>>)
    \/ Call("count", <<>>)
    \/ Resume
    \/ \E ref \in ArgRefs : Write(ref)

Spec == Init /\ [][Next]_vars

\* ------------------------------------------------------------------------
\* Properties of the caller's session
\* ------------------------------------------------------------------------
Returned(op) == last # Nil /\ last[1].op = op
ReturnedOk(op) == Returned(op) /\ IsOk(last[1].out)
Self == View(self[1])
Res == View(last[1].res[1])

\* the store objects alive: self and the store the last call returned
Objs ==
    (IF self = Nil THEN {} ELSE {self[1]})
    \cup (IF last # Nil /\ last[1].res # Nil THEN {last[1].res[1]} ELSE {})

SamePair(k1, k2) == {k1[1], k1[2]} = {k2[1], k2[2]}

\* C2: in every store, built by the constructor, read_aggregates, filter or
\* __add__, cov(a, b) and cov(b, a) have the same outcome (the same value or
\* the same KeyError), and no two keys of the covariance map are the same
\* unordered pair
C2_CovSymmetric ==
    /\ \A obj \in Objs :
           /\ \A a \in Keys, b \in Keys :
                  cov(View(obj), a, b) = cov(View(obj), b, a)
           /\ \A k1 \in DOMAIN View(obj).cov, k2 \in DOMAIN View(obj).cov :
                  SamePair(k1, k2) => k1 = k2
    /\ Returned("cov") =>
           last[1].out = cov(Self, last[1].arg[2], last[1].arg[1])

\* cov("y", "x") has returned from a store constructed on a dict holding
\* both (x, y) and (y, x)
C2_Witness ==
    /\ ReturnedOk("cov")
    /\ last[1].arg = <<"y", "x">>
    /\ 4 \in held
    /\ DOMAIN heap[4] = {<<"x", "y">>, <<"y", "x">>}

\* the request of the filter call that has returned
Req == last[1].arg
ReqPairs == Range(Req.cov_cols)
ReqPairNames == {p[1] : p \in ReqPairs} \cup {p[2] : p \in ReqPairs}
ReqNeedsCount == Req.has_count \/ Req.var_cols # <<>> \/ Req.cov_cols # <<>>
ReqMeans == Range(Req.mean_cols) \cup Range(Req.var_cols) \cup ReqPairNames
ReqVars == Range(Req.var_cols)
ReqCovs == {IF p[1] = "y" /\ p[2] = "x" THEN <<"x", "y">> ELSE p : p \in ReqPairs}

\* C3: filtering the store a filter call returned, with the same request,
\* succeeds and returns the same count and maps; and normalizing a
\* normalized request changes nothing
C3_FilterIdempotent ==
    ReturnedOk("filter") =>
        /\ filter(Res, Req.has_count, Req.mean_cols, Req.var_cols, Req.cov_cols)
               = Ok(Res)
        /\ LET v == _validate_aggr_cols(Req.has_count, Req.mean_cols,
                                        Req.var_cols, Req.cov_cols)
           IN  _validate_aggr_cols(v.has_count, SeqOf(v.mean_cols),
                                   SeqOf(v.var_cols), SeqOf(v.cov_cols)) = v

\* filter has returned a store with a count, a variance and a covariance
\* for a request without has_count
C3_Witness ==
    /\ ReturnedOk("filter")
    /\ ~Req.has_count
    /\ Res.count # NoCount
    /\ DOMAIN Res.var # {}
    /\ DOMAIN Res.cov # {}

\* C4: the store filter returns holds the normalized request and nothing
\* else, with the values of the source store
C4_FilterExact ==
    ReturnedOk("filter") =>
        /\ (Res.count # NoCount) <=> ReqNeedsCount
        /\ Res.count # NoCount => Res.count = Self.count
        /\ DOMAIN Res.mean = ReqMeans
        /\ DOMAIN Res.var = ReqVars
        /\ DOMAIN Res.cov = ReqCovs
        /\ \A k \in DOMAIN Res.mean : Res.mean[k] = Self.mean[k]
        /\ \A k \in DOMAIN Res.var : Res.var[k] = Self.var[k]
        /\ \A k \in DOMAIN Res.cov : Res.cov[k] = Self.cov[k]

\* filter has returned for a request naming the pair (x, y) twice, in both
\* orders, and no mean: the means of x and y are in the store returned
C4_Witness ==
    /\ ReturnedOk("filter")
    /\ Req.mean_cols = <<>>
    /\ Req.cov_cols = << <<"x", "y">>, <<"y", "x">> >>
    /\ DOMAIN Res.mean = Names
    /\ DOMAIN Self.var # {}

\* C5 as stated: ratio_var(v, None) returns var(v) for every variable whose
\* variance the store holds
C5_RatioVarNoDenom ==
    (Returned("ratio_var") /\ last[1].arg[2] = None
        /\ last[1].arg[1] \in DOMAIN Self.var) =>
        last[1].out = Ok(Self.var[last[1].arg[1]])

\* the two operands of the __add__ call that has returned, left first
AddLeft == IF last[1].op = "left" THEN Self ELSE last[1].arg
AddRight == IF last[1].op = "left" THEN last[1].arg ELSE Self
SameKeys(a, b) ==
    /\ DOMAIN a.mean = DOMAIN b.mean
    /\ DOMAIN a.var = DOMAIN b.var
    /\ DOMAIN a.cov = DOMAIN b.cov

\* C6 as stated: on two stores with the same keys, __add__ returns a store
\* with count n1 + n2 when both have a count, and a store with no count,
\* without failing, when either has none
C6_AddCount ==
    (/\ Returned("left") \/ Returned("right")
     /\ SameKeys(AddLeft, AddRight)) =>
        /\ IsOk(last[1].out)
        /\ IF AddLeft.count # NoCount /\ AddRight.count # NoCount
           THEN Res.count = <<AddLeft.count[1] + AddRight.count[1]>>
           ELSE Res.count = NoCount

\* C7: mean(None) is 1, var(None) is 0 and cov with a None argument is 0, in
\* every store and whatever the other name
C7_NoneConventions ==
    /\ (Returned("mean") /\ last[1].arg[1] = None) => last[1].out = Ok(Q(1))
    /\ (Returned("var") /\ last[1].arg[1] = None) => last[1].out = Ok(Q(0))
    /\ (Returned("cov") /\ (last[1].arg[1] = None \/ last[1].arg[2] = None)) =>
           last[1].out = Ok(Q(0))

\* cov("y", None) has returned from a store with no count and no maps
C7_Witness ==
    /\ ReturnedOk("cov")
    /\ last[1].arg = <<"y", None>>
    /\ Self.count = NoCount
    /\ DOMAIN Self.mean = {} /\ DOMAIN Self.var = {} /\ DOMAIN Self.cov = {}

\* what the source store lacks of the request of the filter call
LacksKey ==
    \/ \E k \in ReqMeans : k \notin DOMAIN Self.mean
    \/ \E k \in ReqVars : k \notin DOMAIN Self.var
    \/ \E k \in ReqCovs : k \notin DOMAIN Self.cov
LacksCount == ReqNeedsCount /\ Self.count = NoCount

\* C8 as stated: filter raises KeyError and returns no store when the source
\* lacks a mean, variance or covariance of the normalized request, and fails
\* when the request needs the count and the source has none
C8_AsStated ==
    Returned("filter") =>
        /\ LacksKey => last[1].out = Raise("KeyError") /\ last[1].res = Nil
        /\ LacksCount => ~IsOk(last[1].out) /\ last[1].res = Nil

\* C8 (as amended): filter returns no store when the source lacks a
\* statistic or the count of the normalized request; it raises RuntimeError
\* when the count is needed and undefined, and KeyError otherwise
C8_FilterFails ==
    Returned("filter") =>
        /\ (LacksKey \/ LacksCount) => last[1].res = Nil
        /\ LacksCount => last[1].out = Raise("RuntimeError")
        /\ (LacksKey /\ ~LacksCount) => last[1].out = Raise("KeyError")

\* filter has raised KeyError on a store that has a count and lacks a
\* requested variance
C8_Witness ==
    /\ Returned("filter")
    /\ last[1].out = Raise("KeyError")
    /\ Self.count # NoCount
    /\ \E k \in ReqVars : k \notin DOMAIN Self.var

\* C9 as stated: in every store the variables of the variance map and of the
\* pairs of the covariance map are keys of the mean map
C9_MeansOfMoments ==
    \A obj \in Objs :
        /\ DOMAIN View(obj).var \subseteq DOMAIN View(obj).mean
        /\ \A k \in DOMAIN View(obj).cov :
               {k[1], k[2]} \subseteq DOMAIN View(obj).mean

\* C10 as stated: a store holds what it held when it was constructed,
\* whatever is called on it and whatever the caller writes into the dicts
\* it passed to the constructor; and the maps of a store that filter or
\* __add__ returns are not maps of self nor dicts of the caller
C10_NeverChanges ==
    /\ self # Nil => Self = built[1]
    /\ (last # Nil /\ last[1].res # Nil) =>
           LET r == last[1].res[1]
           IN  {r.mean, r.var, r.cov}
                   \cap ({self[1].mean, self[1].var, self[1].cov} \cup held) = {}

====
